---- MODULE Spec2Model ----
(***************************************************************************)
(* The real-time fan-out coordinator of 404chan-backend: the websocket Hub *)
(* (internal/gateways/websocket/hub.go), its connection adapter ServeWS    *)
(* and the process-wide EventBus (internal/utils/eventbus.go).             *)
(*                                                                         *)
(* Goroutines of the model:                                                *)
(*   - one ServeWS goroutine per connection (pc[c] is its position),       *)
(*   - the single goroutine running Hub.Run (hubpc is its position),       *)
(*   - request handlers calling EventBus.Publish,                          *)
(*   - the two goroutines Run spawns for every serviced disconnect.        *)
(* h.register and h.unregister are unbuffered channels: a send completes   *)
(* only in the step in which Run's select receives it.                     *)
(***************************************************************************)
EXTENDS Integers, Sequences, FiniteSets, TLC

VARIABLES
    pc,          \* position of each connection's ServeWS goroutine
    sess,        \* client.SessionID of each connection (0: no Client yet)
    transport,   \* state of each connection's endpoint
    clients,     \* h.clients, the live set
    events,      \* eb.events, the buffered channel of the bus
    nPub,        \* number of Publish calls that have returned
    hubpc,       \* position of the Run goroutine
    cur,         \* the event Run received last (`event` of the select case)
    todo,        \* recipients the running range loop has not visited yet
    blockedOn,   \* the client Run is sending on h.unregister (0: none)
    snap,        \* history: live set when the handler of cur started
    writes,      \* history: the WriteJSON calls of the handler of cur
    catchup,     \* history: outcome of the catch-up write of a waiting adapter
    catchupAt,   \* history: where Run was when that write was made
    late,        \* history: the session had been ended when ServeWS resolved it
    tasks,       \* side-effect goroutines spawned and not yet run
    closeCalls,  \* history: UpdateSessionEndedAt calls per connection
    cacheCalls,  \* history: redis Del calls per connection
    failed,      \* history: the side effects whose call returned an error
    regCount,    \* history: register requests serviced
    unregLive,   \* history: unregister requests serviced for a live client
    unregAbsent, \* history: unregister requests serviced for an absent one
    touched,     \* history: goroutines that have read or written h.clients
    nDriver,     \* requests submitted by the package-level driver
    driverReq,   \* the client the driver is sending on h.unregister (0: none)
    token,       \* history: the session_key of each connection's request
    act,         \* history: the business action that ran last
    nAct,        \* number of business actions that have run
    subscribers, \* eb.subscribers: the handler list of every kind
    mu,          \* eb.mu: the Subscribe call holding the lock (0: free)
    subpc,       \* position of each Subscribe call
    subArg,      \* the `event` argument of each Subscribe call
    subOld,      \* the slice a Subscribe call has loaded from the map
    subLog       \* history: the handlers registered for every kind, in order

vars == <<pc, sess, transport, clients, events, nPub, hubpc, cur, todo,
          blockedOn, snap, writes, catchup, catchupAt, late, tasks, closeCalls, cacheCalls, failed,
          regCount, unregLive, unregAbsent, touched, nDriver, driverReq,
          token, act, nAct, subscribers, mu, subpc, subArg, subOld, subLog>>

\* ------------------------------------------------------------------ bounds
MaxConn == 3
MaxPeer == 2
MaxPublish == 1
MaxDriver == 1
MaxAction == 1
MaxSub == 3

\* capacity of eb.events: make(chan Event, 100)
EventQueueCap == 100

Conns == 1..MaxConn

\* the connections whose peers make an upgrade request in the general
\* specifications; SpecThree lets every connection of Conns be opened
Peers == 1..MaxPeer

\* --------------------------------------------------- sessions and users
\* The rows of the sessions table the scenario holds: session keys 1 and 2
\* resolve (GetSessionByKey), key 3 does not; "" is a missing query parameter.
Sessions == {1, 2}
Tokens == {"", "k1", "k2", "k3"}

\* the session_key values the sessions table holds
SessionKeys == {"k1", "k2"}

\* no upgrade request has been made on the connection yet
NoToken == "-"

\* GetSessionByKey resolving every key it is given
SessionOfToken_Any(tok) ==
    CASE tok = "k1" -> 1
      [] tok = "k2" -> 2
      [] tok = "k3" -> 3
      [] OTHER -> 0

SessionOfToken(tok) ==
    CASE tok = "k1" -> 1
      [] tok = "k2" -> 2
      [] OTHER -> 0

\* session.UserID of a session row
SessionUser(s) == s

Users == {SessionUser(s) : s \in Sessions}

UserID(c) == SessionUser(sess[c])

\* -------------------------------------------------------- payload values
IntV(n) == [t |-> "int", n |-> n]
U64V(n) == [t |-> "uint64", n |-> n]
StrV(s) == [t |-> "string", s |-> s]
NilV == [t |-> "nil"]
I64V(n) == [t |-> "int64", n |-> n]
\* a float64 holding the whole number n, as encoding/json decodes a number
F64V(n) == [t |-> "float64", n |-> n]

\* Event{Event, Data}; Data is a map[string]interface{} (map = TRUE) or any
\* other value (map = FALSE).
MapData(f) == [map |-> TRUE, f |-> f]
RawData == [map |-> FALSE, f |-> <<>>]

Has(data, k) == data.map /\ k \in DOMAIN data.f

NoEvent == [id |-> 0, kind |-> "", data |-> RawData]

\* no business action has run
NoAction == [kind |-> "", db |-> FALSE, cache |-> FALSE, pubs |-> 0]

\* --------------------------------------------------------------- inputs
\* What request handlers hand to Publish: the payload of UpdateNickname
\* (user/handler.go), of CreateMessage (message/service.go), of CreateThread
\* (thread/service.go), a thread_created payload without board_id, an
\* aggregate-statistics payload and an event of a kind the hub does not know.
NicknameU1 ==
    [kind |-> "nickname_updated",
     data |-> MapData([user_id |-> IntV(1), nickname |-> StrV("Fox"),
                       timestamp |-> IntV(1)])]
MessageOK ==
    [kind |-> "message_created",
     data |-> MapData([message_id |-> U64V(42), thread_id |-> U64V(7),
                       content |-> StrV("hi"), timestamp |-> IntV(1)])]
ThreadOK ==
    [kind |-> "thread_created",
     data |-> MapData([thread_id |-> U64V(7), board_id |-> U64V(3),
                       title |-> StrV("t"), timestamp |-> IntV(1)])]
ThreadNoBoard ==
    [kind |-> "thread_created",
     data |-> MapData([thread_id |-> U64V(7), timestamp |-> IntV(1)])]
StatsOK ==
    [kind |-> "stats_updated", data |-> MapData([online |-> IntV(3)])]
UnknownKind ==
    [kind |-> "board_deleted", data |-> MapData([board_id |-> U64V(3)])]

\* a nickname_updated payload without its nickname
NicknameNoName ==
    [kind |-> "nickname_updated",
     data |-> MapData([user_id |-> IntV(1), timestamp |-> IntV(1)])]

\* nickname_updated payloads for user 1 with the user_id in the other
\* representations a publisher can put into the map, and as a string
NicknameAs(v) ==
    [kind |-> "nickname_updated",
     data |-> MapData([user_id |-> v, nickname |-> StrV("Fox"),
                       timestamp |-> IntV(1)])]

CoerceInputs ==
    {NicknameAs(I64V(1)), NicknameAs(U64V(1)), NicknameAs(F64V(1)),
     NicknameAs(StrV("1"))}

\* payloads Publish accepts like any other map: a message_created and a
\* thread_created payload that carry a field named "event" of their own
MessageWithEvent ==
    [kind |-> "message_created",
     data |-> MapData([message_id |-> U64V(42), thread_id |-> U64V(7),
                       event |-> StrV("nickname_updated"),
                       timestamp |-> IntV(1)])]
ThreadWithEvent ==
    [kind |-> "thread_created",
     data |-> MapData([thread_id |-> U64V(7), board_id |-> U64V(3),
                       event |-> StrV("stats_updated"),
                       timestamp |-> IntV(1)])]

EchoInputs == {MessageWithEvent, ThreadWithEvent}

PublishInputs ==
    {NicknameU1, MessageOK, ThreadOK, ThreadNoBoard, StatsOK, UnknownKind,
     NicknameNoName}

\* ------------------------------------------------------------ the router
Rejected == [ok |-> FALSE, msg |-> <<>>, to |-> {}]

\* the type switch without its `case float64`
UserIDTypes_NoFloat == {"int", "int64", "uint64"}

\* the type switch without its `case int`
UserIDTypes_NoInt == {"float64", "int64", "uint64"}

\* the type switch on data["user_id"]
UserIDTypes == {"float64", "int", "int64", "uint64"}

\* the range loop without its `if client.UserID == userID`
NicknameRecipients_All(userID) == clients

\* the range loop of handleNicknameUpdated writes to a client only under
\* `if client.UserID == userID`
NicknameRecipients(userID) == {c \in clients : UserID(c) = userID}

\* Hub.handleNicknameUpdated up to its range loop: the wire message and the
\* clients the loop writes to.
handleNicknameUpdated(e) ==
    IF ~e.data.map THEN Rejected
    ELSE IF ~Has(e.data, "user_id") THEN Rejected
    ELSE IF e.data.f["user_id"].t \notin UserIDTypes THEN Rejected
    ELSE
        LET userID == e.data.f["user_id"].n
            nickname == IF Has(e.data, "nickname")
                           /\ e.data.f["nickname"].t = "string"
                        THEN e.data.f["nickname"]
                        ELSE StrV("")
            timestamp == IF Has(e.data, "timestamp")
                         THEN e.data.f["timestamp"]
                         ELSE NilV
        IN [ok |-> TRUE,
            msg |-> [event |-> StrV("nickname_updated"),
                     user_id |-> U64V(userID),
                     nickname |-> nickname,
                     timestamp |-> timestamp],
            to |-> NicknameRecipients(userID)]

\* the message without the loop that copies the other payload fields
EchoMsg_RequiredOnly(kind, required, data) ==
    [k \in required \cup {"event"} |->
        IF k \in required THEN data.f[k] ELSE StrV(kind)]

\* the message built by handleThreadCreated / handleMessageCreated: the three
\* required fields, the discriminator, then every other payload field copied
\* over the message under its own key.
EchoMsg(kind, required, data) ==
    [k \in DOMAIN data.f \cup {"event"} |->
        IF k \in required THEN data.f[k]
        ELSE IF k \in DOMAIN data.f THEN data.f[k]
        ELSE StrV(kind)]

ThreadRequired == {"timestamp", "thread_id", "board_id"}
MessageRequired == {"timestamp", "message_id", "thread_id"}

handleThreadCreated(e) ==
    IF ~e.data.map THEN Rejected
    ELSE IF \E k \in ThreadRequired : ~Has(e.data, k) THEN Rejected
    ELSE [ok |-> TRUE,
          msg |-> EchoMsg("thread_created", ThreadRequired, e.data),
          to |-> clients]

\* handleMessageCreated left as the copy of handleThreadCreated it started as
handleMessageCreated_AsThread(e) ==
    IF ~e.data.map THEN Rejected
    ELSE IF \E k \in ThreadRequired : ~Has(e.data, k) THEN Rejected
    ELSE [ok |-> TRUE,
          msg |-> EchoMsg("thread_created", ThreadRequired, e.data),
          to |-> clients]

handleMessageCreated(e) ==
    IF ~e.data.map THEN Rejected
    ELSE IF \E k \in MessageRequired : ~Has(e.data, k) THEN Rejected
    ELSE [ok |-> TRUE,
          msg |-> EchoMsg("message_created", MessageRequired, e.data),
          to |-> clients]

handleStatsUpdated(e) ==
    [ok |-> TRUE,
     msg |-> [event |-> StrV("stats_updated"), data |-> e.data],
     to |-> clients]

\* the cases of the switch
KnownKinds ==
    {"nickname_updated", "thread_created", "message_created", "stats_updated"}

\* the switch with a default case that forwards the event as it came
handleEvent_Forward(e) ==
    CASE e.kind = "nickname_updated" -> handleNicknameUpdated(e)
      [] e.kind = "thread_created" -> handleThreadCreated(e)
      [] e.kind = "message_created" -> handleMessageCreated(e)
      [] e.kind = "stats_updated" -> handleStatsUpdated(e)
      [] OTHER -> [ok |-> TRUE,
                   msg |-> [event |-> StrV(e.kind), data |-> e.data],
                   to |-> clients]

\* Hub.handleEvent: the switch on event.Event
handleEvent(e) ==
    CASE e.kind = "nickname_updated" -> handleNicknameUpdated(e)
      [] e.kind = "thread_created" -> handleThreadCreated(e)
      [] e.kind = "message_created" -> handleMessageCreated(e)
      [] e.kind = "stats_updated" -> handleStatsUpdated(e)
      [] OTHER -> Rejected

\* ---------------------------------------------------------------- Init
connVars == <<pc, sess, transport, catchup, catchupAt, late, token>>
busVars == <<events, nPub>>
loopVars == <<hubpc, cur, todo, blockedOn, snap, writes>>
taskVars == <<tasks, closeCalls, cacheCalls, failed>>
countVars == <<regCount, unregLive, unregAbsent>>
driverVars == <<nDriver, driverReq>>
actVars == <<act, nAct>>
subVars == <<subscribers, mu, subpc, subArg, subOld, subLog>>

\* the goroutines that call Subscribe once the hub is built, and the kinds
\* they subscribe to: one NewHub has a handler for, one it has none for
Callers == 1..MaxSub
SubKinds == {"nickname_updated", "board_deleted"}
BusKinds == KnownKinds \cup SubKinds

\* a handler is named by the caller that registered it; the four closures of
\* NewHub are handler 0 of their kind
HubHandler == 0

\* the map of the bus once NewHub has made its four Subscribe calls
InitBus ==
    /\ subscribers = [k \in BusKinds |->
                        IF k \in KnownKinds THEN <<HubHandler>> ELSE <<>>]
    /\ subLog = [k \in BusKinds |->
                   IF k \in KnownKinds THEN <<HubHandler>> ELSE <<>>]
    /\ mu = 0
    /\ subpc = [g \in Callers |-> "idle"]
    /\ subArg = [g \in Callers |-> ""]
    /\ subOld = [g \in Callers |-> <<>>]

\* NewHub and NewEventBus: empty live set, empty channels, nothing running.
InitCommon ==
    /\ pc = [c \in Conns |-> "new"]
    /\ sess = [c \in Conns |-> 0]
    /\ transport = [c \in Conns |-> "none"]
    /\ catchup = [c \in Conns |-> "none"]
    /\ catchupAt = [c \in Conns |-> ""]
    /\ late = [c \in Conns |-> FALSE]
    /\ token = [c \in Conns |-> NoToken]
    /\ clients = {}
    /\ nPub = 0
    /\ hubpc = "select"
    /\ cur = NoEvent
    /\ todo = {}
    /\ blockedOn = 0
    /\ snap = {}
    /\ writes = {}
    /\ tasks = [x \in {"close", "cache"} \X Conns |-> 0]
    /\ closeCalls = [c \in Conns |-> 0]
    /\ cacheCalls = [c \in Conns |-> 0]
    /\ failed = {}
    /\ regCount = 0
    /\ unregLive = 0
    /\ unregAbsent = 0
    /\ touched = {}
    /\ nDriver = 0
    /\ driverReq = 0
    /\ act = NoAction
    /\ nAct = 0
    /\ InitBus

Init == InitCommon /\ events = <<>>

\* The bus saturated.  Connection 1 was opened with key k1 and registered,
\* its peer went away, and request handlers published aggregate statistics
\* faster than Run received them: Run took the first event, its WriteJSON to
\* connection 1 failed, and the channel has since filled to its capacity.
\* (Every step of that run is a step of Next; only their number, above
\* EventQueueCap, exceeds MaxPublish.)  Events published before this state
\* carry id 0.
BacklogEvent == [id |-> 0, kind |-> "stats_updated",
                 data |-> MapData([online |-> IntV(3)])]

InitSaturated ==
    /\ pc = [c \in Conns |-> IF c = 1 THEN "read" ELSE "new"]
    /\ sess = [c \in Conns |-> IF c = 1 THEN 1 ELSE 0]
    /\ transport = [c \in Conns |-> IF c = 1 THEN "closed" ELSE "none"]
    /\ catchup = [c \in Conns |-> "none"]
    /\ catchupAt = [c \in Conns |-> ""]
    /\ late = [c \in Conns |-> FALSE]
    /\ token = [c \in Conns |-> IF c = 1 THEN "k1" ELSE NoToken]
    /\ clients = {1}
    /\ events = [i \in 1..EventQueueCap |-> BacklogEvent]
    /\ nPub = 0
    /\ hubpc = "blocked"
    /\ cur = BacklogEvent
    /\ todo = {}
    /\ blockedOn = 1
    /\ snap = {1}
    /\ writes = {[c |-> 1,
                  msg |-> [event |-> StrV("stats_updated"),
                           data |-> BacklogEvent.data],
                  ok |-> FALSE]}
    /\ tasks = [x \in {"close", "cache"} \X Conns |-> 0]
    /\ closeCalls = [c \in Conns |-> 0]
    /\ cacheCalls = [c \in Conns |-> 0]
    /\ failed = {}
    /\ regCount = 1
    /\ unregLive = 0
    /\ unregAbsent = 0
    /\ touched = {"hub"}
    /\ nDriver = 0
    /\ driverReq = 0
    /\ act = NoAction
    /\ nAct = 0
    /\ InitBus

\* ------------------------------------------------- the connection adapter
\* the message ServeWS writes itself when the user's nickname cooldown is
\* still running
CatchUpMsg(u) ==
    [event |-> StrV("nickname_updated"), user_id |-> U64V(u),
     nickname |-> StrV("Fox"), timestamp |-> IntV(1)]

\* GetUserLastNicknameChange is under a minute ago: in the scenario user 1,
\* the user whose nickname changes are published, is in its cooldown and
\* user 2 is not.
InCooldown(u) == u = 1

\* the row of session s has its ended_at set: an UpdateSessionEndedAt call
\* for a connection of the session has returned without an error
SessionEnded(s) ==
    \E d \in Conns :
        sess[d] = s /\ closeCalls[d] >= 1 /\ <<"close", d>> \notin failed

\* a catch-up message handed to Run for delivery, which Run takes at its
\* select
CatchUpReady_AtSelect == hubpc = "select"

\* the catch-up message is written with conn.WriteJSON on the goroutine of
\* ServeWS itself, ahead of the send on h.register: nothing of Run is needed
CatchUpReady == TRUE

\* ServeWS from its first line to the send on h.register (part_003:17-104):
\* the token checks, the upgrade, the new Client and the catch-up write.
\* alive: the peer is still there once the upgrade has completed.
ServeWS(c, tok, upgraded, alive) ==
    /\ pc[c] = "new"
    /\ token' = [token EXCEPT ![c] = tok]
    /\ IF tok = "" THEN
           /\ pc' = [pc EXCEPT ![c] = "rejected400"]
           /\ UNCHANGED <<sess, transport, catchup, catchupAt, late>>
       ELSE IF SessionOfToken(tok) = 0 THEN
           /\ pc' = [pc EXCEPT ![c] = "rejected401"]
           /\ UNCHANGED <<sess, transport, catchup, catchupAt, late>>
       ELSE IF ~upgraded THEN
           /\ pc' = [pc EXCEPT ![c] = "upgradeFailed"]
           /\ UNCHANGED <<sess, transport, catchup, catchupAt, late>>
       ELSE
           /\ pc' = [pc EXCEPT ![c] = "register"]
           /\ sess' = [sess EXCEPT ![c] = SessionOfToken(tok)]
           /\ transport' = [transport EXCEPT
                              ![c] = IF alive THEN "open" ELSE "broken"]
           /\ InCooldown(SessionUser(SessionOfToken(tok))) => CatchUpReady
           /\ catchup' = [catchup EXCEPT
                            ![c] = IF ~InCooldown(SessionUser(SessionOfToken(tok)))
                                   THEN "none"
                                   ELSE IF alive THEN "sent" ELSE "failed"]
           /\ late' = [late EXCEPT ![c] = SessionEnded(SessionOfToken(tok))]
           /\ catchupAt' = [catchupAt EXCEPT
                              ![c] = IF InCooldown(SessionUser(SessionOfToken(tok)))
                                     THEN hubpc ELSE ""]
    /\ UNCHANGED <<clients, busVars, loopVars, taskVars, countVars, driverVars, actVars, touched>>
    /\ UNCHANGED subVars

\* the peer closes its transport, or the network drops it
TransportFail(c) ==
    /\ pc[c] \in {"register", "read"}
    /\ transport[c] = "open"
    /\ transport' = [transport EXCEPT ![c] = "broken"]
    /\ UNCHANGED <<pc, sess, catchup, catchupAt, late, token, clients, busVars, loopVars, taskVars,
                   countVars, driverVars, actVars, touched>>
    /\ UNCHANGED subVars

\* the read loop of ServeWS: ReadMessage returns an error once the endpoint is
\* broken or closed, the loop breaks and the goroutine sends on h.unregister
ReadLoopExit(c) ==
    /\ pc[c] = "read"
    /\ transport[c] # "open"
    /\ pc' = [pc EXCEPT ![c] = "unregister"]
    /\ UNCHANGED <<sess, transport, catchup, catchupAt, late, token, clients, busVars, loopVars,
                   taskVars, countVars, driverVars, actVars, touched>>
    /\ UNCHANGED subVars

\* ------------------------------------------------------------ EventBus
\* a plain `eb.events <- e`, which waits for room in the channel
PublishReady_Blocking == Len(events) < EventQueueCap

\* Publish is `select { case eb.events <- e: default: }`: a caller is never
\* made to wait for room in the channel.
PublishReady == TRUE

\* a queue that grows without a limit
Enqueue_Unbounded(q, e) == Append(q, e)

\* a queue that hands out the newest event first
Enqueue_Front(q, e) == IF Len(q) < EventQueueCap THEN <<e>> \o q ELSE q

\* the channel after Publish: the event is appended when there is room,
\* dropped otherwise
Enqueue(q, e) == IF Len(q) < EventQueueCap THEN Append(q, e) ELSE q

\* the handlers registered by NewHub through Subscribe
Subscribers(kind) ==
    IF kind \in {"nickname_updated", "thread_created", "message_created",
                 "stats_updated"}
    THEN {kind} ELSE {}

\* Publish calling the subscribed handlers itself
CallbacksFor_Subscribed(kind) == Subscribers(kind)

\* the handlers Publish invokes on the caller's goroutine: Publish never
\* reads eb.subscribers
CallbacksFor(kind) == {}

\* the body of EventBus.Publish
PublishCall(inp) ==
    /\ events' = Enqueue(events, [id |-> nPub + 1, kind |-> inp.kind,
                                  data |-> inp.data])
    /\ nPub' = nPub + 1
    /\ touched' = IF CallbacksFor(inp.kind) # {}
                  THEN touched \cup {"publisher"}
                  ELSE touched

\* a request handler publishes
Publish(inp) ==
    /\ nPub < MaxPublish
    /\ PublishReady
    /\ PublishCall(inp)
    /\ UNCHANGED <<connVars, clients, loopVars, taskVars, countVars, driverVars, actVars>>
    /\ UNCHANGED subVars

\* a Subscribe that does not take eb.mu
MutexFree_NoLock == TRUE

\* eb.mu.Lock() returns only while no other call holds the lock
MutexFree == mu = 0

\* EventBus.Subscribe, `eb.mu.Lock()`: caller g enters with its handler for
\* kind k; the calls take effect in the order in which they get here
SubscribeLock(g, k) ==
    /\ subpc[g] = "idle"
    /\ MutexFree
    /\ mu' = g
    /\ subpc' = [subpc EXCEPT ![g] = "locked"]
    /\ subArg' = [subArg EXCEPT ![g] = k]
    /\ subLog' = [subLog EXCEPT ![k] = Append(@, g)]
    /\ UNCHANGED <<subscribers, subOld>>
    /\ UNCHANGED <<connVars, clients, busVars, loopVars, taskVars, countVars,
                   driverVars, actVars, touched>>

\* the read of eb.subscribers[event] that append starts from
SubscribeLoad(g) ==
    /\ subpc[g] = "locked"
    /\ subOld' = [subOld EXCEPT ![g] = subscribers[subArg[g]]]
    /\ subpc' = [subpc EXCEPT ![g] = "loaded"]
    /\ UNCHANGED <<subscribers, mu, subArg, subLog>>
    /\ UNCHANGED <<connVars, clients, busVars, loopVars, taskVars, countVars,
                   driverVars, actVars, touched>>

\* `eb.subscribers[event] = append(..., handler)` and the deferred Unlock
SubscribeStore(g) ==
    /\ subpc[g] = "loaded"
    /\ subscribers' = [subscribers EXCEPT ![subArg[g]] = Append(subOld[g], g)]
    /\ subOld' = [subOld EXCEPT ![g] = <<>>]
    /\ subpc' = [subpc EXCEPT ![g] = "done"]
    /\ mu' = 0
    /\ UNCHANGED <<subArg, subLog>>
    /\ UNCHANGED <<connVars, clients, busVars, loopVars, taskVars, countVars,
                   driverVars, actVars, touched>>

\* ---------------------------------------------------- business actions
\* What a business action leaves behind: whether its database write went
\* through, whether its cache invalidation did (FALSE also when it was never
\* reached), and how many times it called Publish.
Outcome(kind, wrote, invalidated, published) ==
    [kind |-> kind, db |-> wrote, cache |-> invalidated,
     pubs |-> IF published THEN 1 ELSE 0]

\* the common shape of the three actions: return on a failed write or a
\* failed read-back; otherwise invalidate the caches, dropping the result of
\* every Del, and publish
RunAction(inp, dbOk, readBack, cacheOk) ==
    /\ nAct < MaxAction
    /\ nPub < MaxPublish
    /\ PublishReady
    /\ nAct' = nAct + 1
    /\ act' = Outcome(inp.kind, dbOk, dbOk /\ readBack /\ cacheOk,
                      dbOk /\ readBack)
    /\ IF dbOk /\ readBack
       THEN PublishCall(inp)
       ELSE UNCHANGED <<events, nPub, touched>>
    /\ UNCHANGED <<connVars, clients, loopVars, taskVars, countVars, driverVars>>
    /\ UNCHANGED subVars

\* handler.UpdateNickname: service.UpdateNickname, redisP.Del, Publish
UpdateNickname(dbOk, cacheOk) == RunAction(NicknameU1, dbOk, TRUE, cacheOk)

\* service.CreateThread: the transaction, GetThreadByID, the invalidations,
\* Publish
CreateThread(dbOk, readBack, cacheOk) ==
    RunAction(ThreadOK, dbOk, readBack, cacheOk)

\* service.CreateMessage: repo.CreateMessage, the invalidations, Publish
CreateMessage(dbOk, cacheOk) == RunAction(MessageOK, dbOk, TRUE, cacheOk)

\* ------------------------------------------------------------- Hub.Run
\* a Run that calls UpdateSessionEndedAt and Del itself instead of starting
\* goroutines for them: it is back at its select only once both have returned
AtSelect_AfterTasks ==
    hubpc = "select" /\ \A x \in DOMAIN tasks : tasks[x] = 0

\* Run is at the select of its for loop; the side effects of an unregister
\* run in goroutines of their own (`go func()`), which Run does not join
AtSelect == hubpc = "select"

\* an adapter that sends the same Client on h.register again after its
\* unregister request was serviced
RegisterPending_Again(c) == pc[c] \in {"register", "done"}

\* the ServeWS goroutine of c is at `h.register <- client`, its only send on
\* that channel
RegisterPending(c) == pc[c] = "register"

\* case client := <-h.register: h.clients[client] = true
HubRegister(c) ==
    /\ AtSelect
    /\ RegisterPending(c)
    /\ clients' = clients \cup {c}
    /\ pc' = [pc EXCEPT ![c] = "read"]
    /\ catchup' = [catchup EXCEPT ![c] = "none"]
    /\ catchupAt' = [catchupAt EXCEPT ![c] = ""]
    /\ UNCHANGED late
    /\ regCount' = regCount + 1
    /\ touched' = touched \cup {"hub"}
    /\ UNCHANGED <<sess, transport, token, busVars, loopVars, taskVars, unregLive,
                   unregAbsent, driverVars, actVars>>
    /\ UNCHANGED subVars

\* the unregister case without its membership test
IsLive_Always(c) == TRUE

\* `if _, ok := h.clients[client]; ok`
IsLive(c) == c \in clients

\* the unregister case without its delete
Delete_Keeps(set, c) == set

\* delete(h.clients, client)
Delete(set, c) == set \ {c}

\* the two `go func()` of the unregister case
Spawn(t, c) ==
    [x \in DOMAIN t |->
        IF x \in {<<"close", c>>, <<"cache", c>>} THEN t[x] + 1 ELSE t[x]]

\* the body of `case client := <-h.unregister`
RunUnregister(c) ==
    /\ touched' = touched \cup {"hub"}
    /\ IF IsLive(c) THEN
           /\ clients' = Delete(clients, c)
           /\ tasks' = Spawn(tasks, c)
           /\ unregLive' = unregLive + 1
           /\ UNCHANGED unregAbsent
       ELSE
           /\ unregAbsent' = unregAbsent + 1
           /\ UNCHANGED <<clients, tasks, unregLive>>

\* Run receives the unregister request of a ServeWS goroutine, which then
\* returns through its deferred conn.Close().  The only receive on
\* h.unregister is this case of Run's select, so a send made by the Run
\* goroutine itself (hubpc = "blocked") is never received.
HubUnregister(c) ==
    /\ AtSelect
    /\ pc[c] = "unregister"
    /\ RunUnregister(c)
    /\ pc' = [pc EXCEPT ![c] = "done"]
    /\ transport' = [transport EXCEPT ![c] = "closed"]
    /\ UNCHANGED <<sess, catchup, catchupAt, late, token, busVars, loopVars, closeCalls, cacheCalls,
                   failed, regCount, driverVars, actVars>>
    /\ UNCHANGED subVars

\* a side-effect goroutine that starts over when its call has failed
Finished_Retry(t, x, ok) == IF ok THEN [t EXCEPT ![x] = @ - 1] ELSE t

\* a side-effect goroutine makes its call once, logs an error if there is one
\* and ends either way
Finished(t, x, ok) == [t EXCEPT ![x] = @ - 1]

\* the first spawned goroutine: sessionSvc.UpdateSessionEndedAt, which looks
\* the session row up and deletes its (user, session) cache key itself before
\* it stores ended_at.  ok: the call returned no error.
SessionCloseTask(c, ok) ==
    /\ tasks[<<"close", c>>] > 0
    /\ tasks' = Finished(tasks, <<"close", c>>, ok)
    /\ closeCalls' = [closeCalls EXCEPT ![c] = @ + 1]
    /\ cacheCalls' = [cacheCalls EXCEPT ![c] = @ + 1]
    /\ failed' = IF ok THEN failed ELSE failed \cup {<<"close", c>>}
    /\ UNCHANGED <<connVars, clients, busVars, loopVars, countVars, driverVars, actVars, touched>>
    /\ UNCHANGED subVars

\* the second spawned goroutine: redisP.Client.Del of "user:%d:session:%d"
\* under a one-second timeout.  ok: Del returned no error in that time.
CacheDelTask(c, ok) ==
    /\ tasks[<<"cache", c>>] > 0
    /\ tasks' = Finished(tasks, <<"cache", c>>, ok)
    /\ cacheCalls' = [cacheCalls EXCEPT ![c] = @ + 1]
    /\ failed' = IF ok THEN failed ELSE failed \cup {<<"cache", c>>}
    /\ UNCHANGED <<connVars, clients, busVars, loopVars, closeCalls,
                   countVars, driverVars, actVars, touched>>
    /\ UNCHANGED subVars

\* what a handler does with a client whose WriteJSON failed, after
\* client.conn.Close(): `h.unregister <- client`, a send on the unbuffered
\* channel made from the Run goroutine
OnSendFailure(c) ==
    /\ hubpc' = "blocked"
    /\ blockedOn' = c

\* the handler returns and Run goes back to its select
HandlerReturns ==
    /\ hubpc' = "select"
    /\ UNCHANGED blockedOn

\* case event := <-eventCh: handleEvent runs the handler of the kind up to
\* the first WriteJSON of its range loop
HubReceive ==
    /\ AtSelect
    /\ events # <<>>
    /\ LET e == Head(events)
           r == handleEvent(e)
       IN /\ events' = Tail(events)
          /\ cur' = e
          /\ snap' = clients
          /\ writes' = {}
          /\ todo' = r.to
          /\ touched' = IF r.ok THEN touched \cup {"hub"} ELSE touched
          /\ IF r.to = {}
             THEN HandlerReturns
             ELSE hubpc' = "dispatch" /\ UNCHANGED blockedOn
    /\ UNCHANGED <<connVars, clients, nPub, taskVars, countVars, driverVars, actVars>>
    /\ UNCHANGED subVars

\* a range loop that deletes every client it has visited from h.clients
AfterWrite_Delete(set, c, ok) == set \ {c}

\* h.clients after one iteration of a handler's range loop: the loop writes,
\* and on a failed write closes the endpoint and sends on h.unregister; it
\* has no delete of its own
AfterWrite(set, c, ok) == set

\* one iteration of the handler's range loop over h.clients (Go visits the
\* map in any order): WriteJSON succeeds on an open endpoint and fails on a
\* broken or closed one
HubSend(c) ==
    /\ hubpc = "dispatch"
    /\ c \in todo
    /\ todo' = todo \ {c}
    /\ writes' = writes \cup {[c |-> c, msg |-> handleEvent(cur).msg,
                               ok |-> transport[c] = "open"]}
    /\ IF transport[c] = "open" THEN
           /\ UNCHANGED transport
           /\ IF todo' = {}
              THEN HandlerReturns
              ELSE UNCHANGED <<hubpc, blockedOn>>
       ELSE
           /\ transport' = [transport EXCEPT ![c] = "closed"]
           /\ OnSendFailure(c)
    /\ clients' = AfterWrite(clients, c, transport[c] = "open")
    /\ UNCHANGED <<pc, sess, catchup, catchupAt, late, token, busVars, cur, snap, taskVars,
                   countVars, driverVars, actVars, touched>>
    /\ UNCHANGED subVars

\* ---------------------------------------------- a package-level driver
\* h.unregister accepts a request for any *Client from any goroutine of the
\* package: a driver submits one for an arbitrary connection (live, never
\* registered, or already removed) and waits until Run receives it.
DriverSubmit(c) ==
    /\ driverReq = 0
    /\ nDriver < MaxDriver
    /\ driverReq' = c
    /\ nDriver' = nDriver + 1
    /\ UNCHANGED <<connVars, clients, busVars, loopVars, taskVars, countVars,
                   actVars, touched>>
    /\ UNCHANGED subVars

HubUnregisterDriver ==
    /\ AtSelect
    /\ driverReq # 0
    /\ RunUnregister(driverReq)
    /\ driverReq' = 0
    /\ UNCHANGED <<connVars, busVars, loopVars, closeCalls, cacheCalls,
                   failed, regCount, nDriver, actVars>>
    /\ UNCHANGED subVars

\* ------------------------------------------------------ specifications
Next ==
    \/ \E c \in Peers, tok \in Tokens, upgraded, alive \in BOOLEAN :
          ServeWS(c, tok, upgraded, alive)
    \/ \E c \in Conns : TransportFail(c)
    \/ \E c \in Conns : ReadLoopExit(c)
    \/ \E inp \in PublishInputs : Publish(inp)
    \/ \E c \in Conns : HubRegister(c)
    \/ \E c \in Conns : HubUnregister(c)
    \/ \E c \in Conns, ok \in BOOLEAN : SessionCloseTask(c, ok)
    \/ \E c \in Conns, ok \in BOOLEAN : CacheDelTask(c, ok)
    \/ HubReceive
    \/ \E c \in Conns : HubSend(c)

Spec == Init /\ [][Next]_vars

\* the same system with the driver's requests
NextDriver ==
    \/ Next
    \/ \E c \in Conns : DriverSubmit(c)
    \/ HubUnregisterDriver

SpecDriver == Init /\ [][NextDriver]_vars

\* Scheduling: Go runs every runnable goroutine eventually, and a select
\* with several ready cases picks one at random, so no ready case of Run's
\* select is passed over forever.  Peers, publishers and new upgrade
\* requests are under no obligation to act.
Fairness ==
    /\ \A c \in Conns : SF_vars(HubRegister(c))
    /\ \A c \in Conns : SF_vars(HubUnregister(c))
    /\ SF_vars(HubReceive)
    /\ \A c \in Conns : WF_vars(HubSend(c))
    /\ \A c \in Conns : WF_vars(ReadLoopExit(c))
    /\ \A c \in Conns : WF_vars(\E ok \in BOOLEAN : SessionCloseTask(c, ok))
    /\ \A c \in Conns : WF_vars(\E ok \in BOOLEAN : CacheDelTask(c, ok))

FairSpec == Init /\ [][Next]_vars /\ Fairness

\* the system started empty or with the bus saturated
SpecBus == (Init \/ InitSaturated) /\ [][Next]_vars

\* the same system with an upgrade request on every connection of Conns
NextThree ==
    \/ Next
    \/ \E c \in Conns, tok \in Tokens, upgraded, alive \in BOOLEAN :
          ServeWS(c, tok, upgraded, alive)

SpecThree == Init /\ [][NextThree]_vars

\* Two events were published before Run got to its select: a nickname change
\* and aggregate statistics, numbered -1 and 0 in publish order.
InitBacklog ==
    /\ InitCommon
    /\ events = <<[id |-> -1, kind |-> NicknameU1.kind, data |-> NicknameU1.data],
                  [id |-> 0, kind |-> StatsOK.kind, data |-> StatsOK.data]>>

SpecOrder == InitBacklog /\ [][Next]_vars

\* the system with the three business actions as its publishers
NextAction ==
    \/ \E c \in Peers, tok \in Tokens, upgraded, alive \in BOOLEAN :
          ServeWS(c, tok, upgraded, alive)
    \/ \E c \in Conns : TransportFail(c)
    \/ \E c \in Conns : ReadLoopExit(c)
    \/ \E dbOk, cacheOk \in BOOLEAN : UpdateNickname(dbOk, cacheOk)
    \/ \E dbOk, readBack, cacheOk \in BOOLEAN :
          CreateThread(dbOk, readBack, cacheOk)
    \/ \E dbOk, cacheOk \in BOOLEAN : CreateMessage(dbOk, cacheOk)
    \/ \E c \in Conns : HubRegister(c)
    \/ \E c \in Conns : HubUnregister(c)
    \/ \E c \in Conns, ok \in BOOLEAN : SessionCloseTask(c, ok)
    \/ \E c \in Conns, ok \in BOOLEAN : CacheDelTask(c, ok)
    \/ HubReceive
    \/ \E c \in Conns : HubSend(c)

SpecAction == Init /\ [][NextAction]_vars

\* the bus with callers subscribing while request handlers publish
NextSub ==
    \/ \E g \in Callers, k \in SubKinds : SubscribeLock(g, k)
    \/ \E g \in Callers : SubscribeLoad(g)
    \/ \E g \in Callers : SubscribeStore(g)
    \/ \E inp \in PublishInputs : Publish(inp)

SpecSub == Init /\ [][NextSub]_vars

\* the system with publishers of the payloads of EchoInputs as well
NextRouter ==
    \/ Next
    \/ \E inp \in EchoInputs : Publish(inp)

SpecRouter == Init /\ [][NextRouter]_vars

\* the system that starts with two events in the queue, under the scheduling
\* of Fairness
FairOrder == InitBacklog /\ [][Next]_vars /\ Fairness

\* the system with publishers of the payloads of CoerceInputs as well
NextCoerce ==
    \/ Next
    \/ \E inp \in CoerceInputs : Publish(inp)

SpecCoerce == Init /\ [][NextCoerce]_vars

\* ================================================================ claims

\* C1: starting from an empty live set, the number of live connections
\* always equals the number of serviced register requests minus the number
\* of serviced unregister requests whose client was live; a request for a
\* never-registered or already-removed client does not change the count.
C1_LiveCount == Cardinality(clients) = regCount - unregLive

\* two registers, one unregister of a live client and one of an absent one
C1_Witness ==
    /\ regCount = 2
    /\ unregLive = 1
    /\ unregAbsent >= 1
    /\ Cardinality(clients) = 1

\* C2: the handler of a nickname_updated event for user U writes only to
\* connections whose UserID is U, whatever other connections are live.
C2_NicknameOnlyToOwner ==
    (cur.kind = "nickname_updated" /\ Has(cur.data, "user_id")) =>
        \A w \in writes : UserID(w.c) = cur.data.f["user_id"].n

\* the handler has returned after writing to user 1 while a connection of
\* another user was live
C2_Witness ==
    /\ cur.kind = "nickname_updated"
    /\ hubpc = "select"
    /\ \E w \in writes : w.ok /\ UserID(w.c) = 1
    /\ \E c \in snap : UserID(c) # 1

\* C3: once the handler of a thread_created or message_created event has
\* started, a write is attempted to every connection that was live at that
\* moment, and no write of that event goes to any other connection.
Broadcasting ==
    /\ cur.kind \in {"thread_created", "message_created"}
    /\ handleEvent(cur).ok

C3_BroadcastToAllLive ==
    /\ (Broadcasting /\ hubpc = "dispatch")
          ~> (\A c \in snap : \E w \in writes : w.c = c)
    /\ [](Broadcasting => \A w \in writes : w.c \in snap)

\* C4: every live connection whose endpoint has gone gets exactly one
\* UpdateSessionEndedAt call and exactly one delete of its (user, session)
\* cache key, whether the read loop or a failed send found the endpoint dead.
Disconnected(c) == c \in clients /\ transport[c] # "open"

C4_ExactlyOneCloseAndInvalidate ==
    \A c \in Conns :
        [](Disconnected(c) => <>[](closeCalls[c] = 1 /\ cacheCalls[c] = 1))

\* C5: Publish is always able to return, and a Publish made while the channel
\* holds EventQueueCap events leaves the channel as it was.
C5_PublishNeverBlocks ==
    /\ [](nPub < MaxPublish => ENABLED (\E inp \in PublishInputs : Publish(inp)))
    /\ [][(nPub' = nPub + 1 /\ Len(events) = EventQueueCap)
             => events' = events]_vars

\* a Publish has returned with the channel full
C5_Witness == Len(events) = EventQueueCap /\ nPub >= 1

\* C6: the Run goroutine is never a sender on h.unregister: a failed send
\* inside a handler's range loop does not submit the client to the channel
\* that only Run receives from.
C6_NoSelfUnregister == hubpc # "blocked"

\* C7: only the goroutine running Hub.Run reads or writes h.clients.
C7_SingleOwner == touched \subseteq {"hub"}

\* connections came and went and an event was written out while publishers
\* and adapters were running
C7_Witness ==
    /\ touched = {"hub"}
    /\ nPub >= 1
    /\ \E w \in writes : w.ok
    /\ \E c \in Conns : pc[c] = "done"

\* C8: Run always comes back to its select, and every register request,
\* unregister request and queued event is eventually serviced.
C8_CoordinatorKeepsServing ==
    /\ []<>(hubpc = "select")
    /\ \A c \in Conns : (pc[c] = "register") ~> (pc[c] = "read")
    /\ \A c \in Conns : (pc[c] = "unregister") ~> (pc[c] = "done")
    /\ (events # <<>>) ~> (events = <<>>)

\* C9: a recipient whose send failed has its endpoint closed and, with the
\* handler returned, is out of the live set.
SendFailed(c) == \E w \in writes : w.c = c /\ ~w.ok

C9_FailedRecipientRemoved ==
    \A c \in Conns :
        SendFailed(c) ~>
            (transport[c] = "closed" /\ hubpc = "select" /\ c \notin clients)

\* C10: servicing an unregister request for a client that is not in the live
\* set changes neither the live set nor the spawned side effects nor the
\* calls made to the session service and the cache.
UnregServiced(c) ==
    \/ pc[c] = "unregister" /\ pc'[c] = "done"
    \/ driverReq = c /\ driverReq' = 0

C10_AbsentUnregisterNoop ==
    [][\A c \in Conns :
          (UnregServiced(c) /\ c \notin clients) =>
              /\ clients' = clients
              /\ tasks' = tasks
              /\ closeCalls' = closeCalls
              /\ cacheCalls' = cacheCalls]_vars

\* a request for an absent client has been serviced
C10_Witness == unregAbsent >= 1

\* the writes the handler of cur has made to connection c
WritesTo(c) == {w \in writes : w.c = c}

C12_AllLiveReceiveMessage ==
    (cur.id >= 1 /\ cur.kind = "message_created"
        /\ \A k \in {"message_id", "thread_id", "timestamp"} :
              Has(cur.data, k)) =>
        /\ hubpc = "dispatch" =>
              \A c \in snap : c \in todo \/ WritesTo(c) # {}
        /\ hubpc = "select" =>
              \A c \in snap :
                  \E w \in WritesTo(c) :
                      /\ w.ok
                      /\ w.msg.event = StrV("message_created")
                      /\ w.msg.message_id = cur.data.f["message_id"]
                      /\ w.msg.thread_id = cur.data.f["thread_id"]

\* three connections were live and all three have received message 42 of
\* thread 7
C12_Witness ==
    /\ cur.kind = "message_created"
    /\ hubpc = "select"
    /\ Cardinality(snap) = 3
    /\ \A c \in snap :
          \E w \in WritesTo(c) :
              /\ w.ok
              /\ w.msg.message_id = U64V(42)
              /\ w.msg.thread_id = U64V(7)

\* C13: when the peer of a live connection closes its transport, the read
\* loop ends, its unregister request is serviced, the connection leaves the
\* live set and UpdateSessionEndedAt is called for its session.
C13_DisconnectEndsSession ==
    \A c \in Conns :
        (c \in clients /\ pc[c] = "read" /\ transport[c] = "broken")
            ~> (c \notin clients /\ pc[c] = "done" /\ closeCalls[c] >= 1)

\* C14: a request without session_key ends in the 400 answer and one whose
\* key the sessions table does not hold in the 401 answer, neither with a
\* Client, an endpoint or a place in the live set; every live connection
\* was opened with a key of the table and carries that session and its user.
C14_OnlyResolvedTokensRegister ==
    /\ \A c \in Conns :
          /\ token[c] = "" => pc[c] = "rejected400"
          /\ token[c] \notin SessionKeys \cup {"", NoToken} =>
                pc[c] = "rejected401"
          /\ pc[c] \in {"rejected400", "rejected401"} =>
                sess[c] = 0 /\ transport[c] = "none" /\ c \notin clients
    /\ \A c \in clients :
          /\ token[c] \in SessionKeys
          /\ sess[c] \in Sessions
          /\ UserID(c) \in Users

\* one request was refused with 400, one with 401, and one connection is
\* live
C14_Witness ==
    /\ \E c \in Conns : pc[c] = "rejected400"
    /\ \E c \in Conns : pc[c] = "rejected401"
    /\ \E c \in clients : token[c] = "k2" /\ sess[c] = 2

\* C15: Run never receives an event while an event of the same kind that
\* was published before it is still in the channel.
C15_SameKindInPublishOrder ==
    [][(hubpc = "select" /\ Len(events') = Len(events) - 1) =>
          \A i \in DOMAIN events' :
              events'[i].kind = cur'.kind => events'[i].id > cur'.id]_vars

\* the nickname event published last has been received after the nickname
\* event and the statistics published before it
C15_Witness ==
    /\ cur.id = 1
    /\ cur.kind = "nickname_updated"
    /\ events = <<>>

\* C16: after an event of a kind outside the four cases, no write has been
\* made, the handler is not running, and receiving it left the live set as
\* it was.
C16_UnknownKindRejected ==
    /\ []((cur.id >= 1 /\ cur.kind \notin KnownKinds) =>
             (writes = {} /\ todo = {} /\ hubpc = "select"))
    /\ [][(Len(events') = Len(events) - 1 /\ cur'.kind \notin KnownKinds)
             => clients' = clients]_vars

\* board_deleted was received with a connection live
C16_Witness ==
    /\ cur.kind = "board_deleted"
    /\ snap # {}
    /\ writes = {}

\* C17: an event of a known kind whose payload lacks a required field is
\* dropped: nothing is written for it.
C17_Required(kind) ==
    CASE kind = "nickname_updated" -> {"user_id", "nickname", "timestamp"}
      [] kind = "thread_created" -> {"thread_id", "board_id", "timestamp"}
      [] kind = "message_created" -> {"message_id", "thread_id", "timestamp"}
      [] OTHER -> {"timestamp"}

C17_MissingFieldDropped ==
    (cur.id >= 1 /\ cur.kind \in KnownKinds
        /\ \E k \in C17_Required(cur.kind) : ~Has(cur.data, k)) =>
        (writes = {} /\ todo = {} /\ hubpc = "select")

\* C18: every message a handler writes carries an event field and a
\* timestamp field.
C18_EventAndTimestamp ==
    \A w \in writes : {"event", "timestamp"} \subseteq DOMAIN w.msg

\* C19: a business action calls Publish once when its database write and
\* its cache invalidation have both succeeded, and not at all otherwise.
C19_PublishOnlyAfterSuccess ==
    act.kind # "" => act.pubs = IF act.db /\ act.cache THEN 1 ELSE 0

\* C20: when Publish has been called with a kind that has a subscribed
\* handler, the handler has run on the publisher's goroutine (the handlers
\* NewHub subscribes walk h.clients).
C20_SubscribersInvoked ==
    (\/ \E i \in DOMAIN events :
            events[i].id >= 1 /\ Subscribers(events[i].kind) # {}
     \/ cur.id >= 1 /\ Subscribers(cur.kind) # {})
        => "publisher" \in touched

\* C21: once every Subscribe call that was started has returned, the list of
\* each kind holds the handlers registered for it, in registration order; a
\* step changes the list of at most one kind, and only by appending one
\* handler to it.
C21_Quiescent == \A g \in Callers : subpc[g] \in {"idle", "done"}

C21_AppendOnly ==
    /\ [](C21_Quiescent => subscribers = subLog)
    /\ [][\/ subscribers' = subscribers
          \/ \E k \in BusKinds, g \in Callers :
                subscribers' = [subscribers EXCEPT ![k] = Append(@, g)]]_vars

\* three callers have subscribed, two of them to the kind NewHub subscribed
\* to, the second of the two first
C21_Witness ==
    /\ C21_Quiescent
    /\ subscribers["nickname_updated"] = <<HubHandler, 2, 1>>
    /\ subscribers["board_deleted"] = <<3>>

\* C22: a connection one of whose writes has failed, the catch-up write of
\* its adapter or a write of an event dispatch, is not in the live set after
\* any later step: it neither becomes nor remains a member.
C22_FailedWriteIsDeath ==
    [][\A c \in Conns :
          (catchup[c] = "failed" \/ \E w \in writes : w.c = c /\ ~w.ok)
              => c \notin clients']_vars

\* C23: a connection is Registering, then Live, then Removed.  Its adapter
\* moves from the register request to the read loop to the unregister
\* request and never back; the connection enters the live set only in the
\* step that services its register request and leaves it only in the step
\* that services its unregister request; before the first and after the
\* second it is not a member.
C23_Steps ==
    {<<"new", "register">>, <<"register", "read">>, <<"read", "unregister">>,
     <<"unregister", "done">>, <<"new", "rejected400">>,
     <<"new", "rejected401">>, <<"new", "upgradeFailed">>}

C23_Lifecycle ==
    /\ [][\A c \in Conns :
            /\ pc'[c] # pc[c] => <<pc[c], pc'[c]>> \in C23_Steps
            /\ (c \in clients' /\ c \notin clients)
                  => (pc[c] = "register" /\ pc'[c] = "read")
            /\ (c \notin clients' /\ c \in clients)
                  => (pc[c] = "unregister" /\ pc'[c] = "done")]_vars
    /\ [](\A c \in Conns : c \in clients <=> pc[c] \in {"read", "unregister"})

\* connection 1 has been registered and removed while connection 2 is live
C23_Witness ==
    /\ pc[1] = "done"
    /\ 1 \notin clients
    /\ regCount = 2
    /\ unregLive = 1
    /\ pc[2] = "read"
    /\ 2 \in clients

\* C24: an event of a known kind that Run has taken from the queue and
\* dispatched has been processed twice: by the subscribed callback on the
\* publisher's goroutine and by Run.
C24_ProcessedTwice ==
    (cur.id >= 1 /\ cur.kind \in KnownKinds /\ handleEvent(cur).ok)
        => {"publisher", "hub"} \subseteq touched

\* C25: while a session-close or a cache-invalidation that Run has started
\* is still pending (it may stay so forever), Run at its select still takes
\* every register request, unregister request and event that is waiting.
C25_NoWaitOnSideEffects ==
    (hubpc = "select" /\ \E x \in DOMAIN tasks : tasks[x] > 0) =>
        /\ \A c \in Conns : pc[c] = "register" => ENABLED HubRegister(c)
        /\ \A c \in Conns : pc[c] = "unregister" => ENABLED HubUnregister(c)
        /\ events # <<>> => ENABLED HubReceive

\* the side effects of two disconnects are pending together: the second
\* unregister request was serviced while those of the first were pending
C25_Witness ==
    /\ hubpc = "select"
    /\ unregLive = 2
    /\ \A c \in {1, 2} : tasks[<<"close", c>>] > 0 /\ tasks[<<"cache", c>>] > 0

\* C26: a step in which the session-close or the cache-invalidation of a
\* disconnect fails ends that one call, which is not made again, and changes
\* nothing else: neither the live set nor any connection, neither the queue
\* nor the dispatch in progress with the messages it has written, nor the
\* other side effect, which is still to run if it has not run yet.
C26_FailureIsIsolated ==
    [][\A x \in DOMAIN tasks :
          (x \in failed' /\ x \notin failed) =>
              /\ tasks' = [tasks EXCEPT ![x] = @ - 1]
              /\ UNCHANGED <<connVars, clients, busVars, loopVars, countVars>>]_vars

\* the session-close of connection 1 has failed and its cache-invalidation
\* has run without an error, while connection 2 is live
C26_Witness ==
    /\ <<"close", 1>> \in failed
    /\ <<"cache", 1>> \notin failed
    /\ tasks[<<"close", 1>>] = 0
    /\ tasks[<<"cache", 1>>] = 0
    /\ closeCalls[1] = 1
    /\ cacheCalls[1] = 2
    /\ 2 \in clients

\* C27 as stated: the catch-up message is written after the register request
\* has been submitted and before the read loop starts, i.e. in a step that
\* begins with the adapter at its send on h.register.
C27_CatchUpAfterSubmit ==
    [][\A c \in Conns :
          (catchup[c] = "none" /\ catchup'[c] \in {"sent", "failed"})
              => pc[c] = "register"]_vars

\* C27, amended: the catch-up message is written before the register request
\* is submitted (the adapter goes from the write to its send on h.register,
\* and the connection is not live yet), and the write never waits on Run: an
\* adapter that has not started can reach its send on h.register whatever
\* Run is doing.
C27_CatchUpBeforeSubmit ==
    /\ [][\A c \in Conns :
            (catchup[c] = "none" /\ catchup'[c] \in {"sent", "failed"})
                => (pc[c] = "new" /\ pc'[c] = "register"
                      /\ c \notin clients /\ c \notin clients')]_vars
    /\ [](\A c \in Peers :
            pc[c] = "new" => ENABLED ServeWS(c, "k1", TRUE, TRUE))

\* the catch-up message of connection 1 was written while Run was blocked in
\* a handler
C27_Witness ==
    /\ catchup[1] = "sent"
    /\ catchupAt[1] = "blocked"
    /\ pc[1] = "register"
    /\ hubpc = "blocked"

\* C28: every message written for a thread_created or message_created event
\* has exactly the fields of the payload plus the event field, and every
\* payload field, the three required ones included, is in it under its own
\* key with the value the payload has.
C28_EchoesPayload ==
    cur.kind \in {"thread_created", "message_created"} =>
        \A w \in writes :
            /\ DOMAIN w.msg = DOMAIN cur.data.f \cup {"event"}
            /\ \A k \in DOMAIN cur.data.f : w.msg[k] = cur.data.f[k]

\* the message of a message_created event with a content field has been
\* written to a connection
C28_Witness ==
    /\ cur.kind = "message_created"
    /\ Has(cur.data, "content")
    /\ \E w \in writes :
          /\ w.ok
          /\ w.msg["content"] = StrV("hi")
          /\ w.msg["message_id"] = U64V(42)

\* C29: every message written for a thread_created or message_created event
\* has the kind being dispatched in its event field.
C29_DiscriminatorIsKind ==
    cur.kind \in {"thread_created", "message_created"} =>
        \A w \in writes : w.msg["event"] = StrV(cur.kind)

\* C30: an endpoint has one writer at a time.  A connection is in the live
\* set, and so within reach of a handler's range loop, only once its adapter
\* is past its catch-up write and its send on h.register; a handler that
\* still has a connection to write to finds its adapter in the read loop or
\* behind it; and no handler runs on a publisher's goroutine, so the
\* goroutine of Run is the only one that writes to live connections.
C30_SingleWriter ==
    /\ \A c \in clients : pc[c] \in {"read", "unregister"}
    /\ \A c \in Conns :
          pc[c] \in {"new", "register"} =>
              (c \notin todo /\ \A w \in writes : w.c # c)
    /\ "publisher" \notin touched

\* connection 1, whose user is in the nickname cooldown and whose peer was
\* there for the catch-up write, has been registered and then written to by
\* a handler, all published events having been taken by Run
C30_Witness ==
    /\ InCooldown(UserID(1))
    /\ pc[1] = "read"
    /\ nPub = MaxPublish
    /\ events = <<>>
    /\ \E w \in writes : w.c = 1 /\ w.ok

\* C31: the unregister case starts the session-close of a connection only
\* when no other connection of the same session is in the live set.
C31_NoCloseWhileSessionLive ==
    [][\A c \in Conns :
          tasks'[<<"close", c>>] > tasks[<<"close", c>>] =>
              \A d \in clients' : sess[d] # sess[c]]_vars

\* C32: every event that is in the queue is eventually taken from it and
\* dispatched by Run.
C32_Queued(id) == \E i \in DOMAIN events : events[i].id = id

C32_AcceptedIsDispatched ==
    \A id \in -1..MaxPublish :
        C32_Queued(id) ~> (cur.id = id /\ cur.kind # "")

\* C33: every write Run makes goes to a connection that is in the live set,
\* whose unregister request has not been serviced and whose endpoint Run has
\* not closed after a failed write.
C33_NoWriteAfterRemoval ==
    [][\A w \in writes' \ writes :
          /\ w.c \in clients
          /\ pc[w.c] # "done"
          /\ blockedOn # w.c
          /\ \A v \in writes : v.c = w.c => v.ok]_vars

\* connection 1 was registered and removed; the handler of the event taken
\* after that wrote to connection 2 alone, the write failed, and Run has not
\* moved since
C33_Witness ==
    /\ pc[1] = "done"
    /\ closeCalls[1] = 1
    /\ cur.id >= 1
    /\ snap = {2}
    /\ hubpc = "blocked"
    /\ blockedOn = 2
    /\ \A w \in writes : w.c = 2

\* C34: while a handler is running the live set is the one it started with;
\* a step of a dispatch in which no write has failed leaves the live set as
\* it is and starts no session-close and no cache-invalidation; and a step
\* that services a register or an unregister request writes no message and
\* leaves the dispatch state alone.
C34_DispatchStep ==
    \/ Len(events') < Len(events)
    \/ hubpc = "dispatch" /\ todo' # todo

C34_FrameEffects ==
    /\ [](hubpc = "dispatch" => clients = snap)
    /\ [][(C34_DispatchStep /\ \A w \in writes' : w.ok)
              => (clients' = clients /\ tasks' = tasks)]_vars
    /\ [][(regCount' # regCount \/ unregLive' # unregLive
              \/ unregAbsent' # unregAbsent)
              => UNCHANGED <<writes, todo, cur, snap, hubpc>>]_vars

\* an event has been written to two live connections, both writes went
\* through, and the two are still the live set, with no side effect started
C34_Witness ==
    /\ cur.id >= 1
    /\ hubpc = "select"
    /\ snap = {1, 2}
    /\ {w.c : w \in writes} = {1, 2}
    /\ \A w \in writes : w.ok
    /\ clients = {1, 2}
    /\ unregLive = 0
    /\ \A x \in DOMAIN tasks : tasks[x] = 0

\* C35: a session-close or a cache-invalidation is pending or has been made
\* only for a connection whose register request Run has serviced; for a
\* connection that was rejected, whose upgrade failed or that is still
\* waiting to be registered there is none, whoever asks for its removal.
C35_Registered(c) == pc[c] \in {"read", "unregister", "done"}

C35_SideEffectsOnlyForRegistered ==
    \A c \in Conns :
        (\/ tasks[<<"close", c>>] > 0
         \/ tasks[<<"cache", c>>] > 0
         \/ closeCalls[c] > 0
         \/ cacheCalls[c] > 0) => C35_Registered(c)

\* connection 1 was registered and removed, with both side effects made;
\* connection 2 was turned away, and a request to remove a connection that
\* was not in the live set has been serviced as well
C35_Witness ==
    /\ pc[1] = "done"
    /\ closeCalls[1] = 1
    /\ cacheCalls[1] = 2
    /\ pc[2] \in {"rejected400", "rejected401", "upgradeFailed"}
    /\ unregAbsent >= 1
    /\ nDriver >= 1
    /\ closeCalls[2] = 0
    /\ cacheCalls[2] = 0

\* C36: the handler of a nickname_updated event whose user_id is the whole
\* number U held as int, int64, uint64 or float64 writes only to connections
\* of user U and, once it has returned, has written to every connection of
\* user U that was live when it started, whichever of the four types holds
\* U; for a user_id of any other type it writes to nobody.
C36_Targets(u) == {c \in snap : UserID(c) = u}

C36_SameTargetsForAllTypes ==
    (cur.id >= 1 /\ cur.kind = "nickname_updated" /\ Has(cur.data, "user_id"))
        => LET v == cur.data.f["user_id"]
           IN IF v.t \in {"int", "int64", "uint64", "float64"}
              THEN /\ {w.c : w \in writes} \subseteq C36_Targets(v.n)
                   /\ hubpc = "select" =>
                         {w.c : w \in writes} = C36_Targets(v.n)
              ELSE writes = {} /\ todo = {} /\ hubpc = "select"

\* a nickname_updated event with user 1 as a float64 has gone to the
\* connection of user 1 and not to the live connection of user 2
C36_Witness ==
    /\ cur.kind = "nickname_updated"
    /\ cur.data.f["user_id"] = F64V(1)
    /\ hubpc = "select"
    /\ \E a, b \in snap :
          /\ UserID(a) = 1 /\ UserID(b) = 2
          /\ \E w \in writes : w.c = a /\ w.ok
          /\ \A w \in writes : w.c # b

\* C37: no connection in the live set was opened by an upgrade request that
\* presented the token of a session whose session-close had already been
\* made.
C37_NoLiveAfterSessionClose == \A c \in clients : ~late[c]

\* C38: the channel of the bus never holds more events than its capacity.
C38_QueueWithinCapacity == Len(events) <= EventQueueCap

\* every Publish call the scenario allows has returned with the channel at
\* its capacity, Run being blocked in a handler
C38_Witness ==
    /\ Len(events) = EventQueueCap
    /\ nPub = MaxPublish
    /\ hubpc = "blocked"
    /\ \A i \in DOMAIN events : events[i].id = 0

====
